---- MODULE Spec2Model ----
(***************************************************************************)
(* Model of the myte batch pipeline (src/src/tree.rs, src/src/cli.rs).     *)
(*                                                                         *)
(* File names are sequences of ASCII codes so that glob matching, the      *)
(* alphabetical order in which glob yields paths, Path::file_stem and      *)
(* Path::extension are computed on the characters, as the code does.       *)
(* A path is a pair <<dir, name>>; a directory is a tuple of strings       *)
(* (<<"cwd">>, <<"gene-treefiles">>) or, for the per-prefix archive,       *)
(* <<"iqtree-genes", stem>>.                                               *)
(*                                                                         *)
(* params and command are the parameter override and the argument list of  *)
(* Process::run_iqtree; the pipeline model leaves them alone, and ArgsSpec  *)
(* applies the argument construction to every override of a bounded set.   *)
(* opts is the value of --opts-g / --opts-s on the command line (CliSpec);  *)
(* duration and time are the input and the result of parse_duration        *)
(* (DurationSpec).                                                         *)
(*                                                                         *)
(* Environment assumptions (the external programs are opaque):             *)
(*  - iqtree2 run with --prefix p writes p.log, and p.treefile only when   *)
(*    it exits with status 0; it exits non-zero when its alignment is not  *)
(*    there when it starts;                                                *)
(*  - captured stdout/stderr are valid UTF-8;                              *)
(*  - file stems contain no glob metacharacters.                           *)
(***************************************************************************)
EXTENDS Integers, Sequences, FiniteSets, TLC

VARIABLES cfg, fs, dirs, main, paths, jpc, jout, jfiles, jnext,
          sout, sfiles, snext, logged, started, finished, spawns, collects,
          params, command, opts, duration, time

vars == <<cfg, fs, dirs, main, paths, jpc, jout, jfiles, jnext,
          sout, sfiles, snext, logged, started, finished, spawns, collects,
          params, command, opts, duration, time>>

-----------------------------------------------------------------------------
(* Bounds *)

MaxFiles == 2
MaxPool == 2
MaxParamLen == 4

-----------------------------------------------------------------------------
(* Strings *)

Dot == <<46>>
Star == <<42>>
Str_a == <<97>>
Str_b == <<98>>
Str_c == <<99>>
Str_d == <<100>>
Str_e == <<101>>
Str_a_p == <<97, 46, 112>>
Str_nex == <<110, 101, 120>>
Str_fa == <<102, 97>>
Str_fas == <<102, 97, 115>>
Str_phy == <<112, 104, 121>>
Str_log == <<108, 111, 103>>
Str_tre == <<116, 114, 101>>
Str_tree == <<116, 114, 101, 101>>
Str_cf == <<99, 102>>
Str_treefile == <<116, 114, 101, 101, 102, 105, 108, 101>>

SPECIES_TREE_PREFIX == <<99, 111, 110, 99, 97, 116>>
CONCORD_FACTOR_PREFIX == <<99, 111, 110, 99, 111, 114, 100>>
GENE_TREE_NAME == <<103, 101, 110, 101, 115>> \o Dot \o Str_treefile \o <<115>>
ASTRAL_TREE_NAME == <<109, 115, 99, 95, 97, 115, 116, 114, 97, 108>> \o Dot \o Str_tree
ASTRAL_LOG_NAME == <<109, 115, 99, 95, 97, 115, 116, 114, 97, 108>> \o Dot \o Str_log

Cwd == <<"cwd">>
InDir == <<"in">>
\* a directory whose name, in*, holds a character that glob reads as a wildcard
InStarDir == <<"in*">>
GENE_TREE_DIR == <<"gene-treefiles">>
GENE_TREE_OUTPUT_DIR == <<"iqtree-genes">>
SPECIES_TREE_OUTPUT_DIR == <<"iqtree-species-tree">>
CONCORD_FACTOR_OUTPUT_DIR == <<"iqtree-CF">>

\* Path::join(dir, name) for a relative one-component name
Join(dir, name) == <<dir, name>>

\* parent_dir.join(prefix): the archive directory of one prefix
ArchiveDir(prefix) == <<"iqtree-genes", prefix>>

-----------------------------------------------------------------------------
(* Path helpers of the standard library, on character sequences *)

Min(a, b) == IF a < b THEN a ELSE b

\* byte-wise lexicographic order, the order of OsStr comparison
LexLess(a, b) ==
    \E i \in 1..(Min(Len(a), Len(b)) + 1) :
        /\ \A k \in 1..(i - 1) : a[k] = b[k]
        /\ \/ i = Len(a) + 1 /\ i <= Len(b)
           \/ i <= Len(a) /\ i <= Len(b) /\ a[i] < b[i]

\* index of the last dot of a name, 0 when there is none
LastDot(name) ==
    LET ds == {i \in 1..Len(name) : name[i] = 46}
    IN IF ds = {} THEN 0 ELSE CHOOSE i \in ds : \A k \in ds : k <= i

\* Path::file_stem: the name up to the last dot; the whole name when it has
\* no dot or only a leading one
FileStem(name) ==
    IF LastDot(name) <= 1 THEN name ELSE SubSeq(name, 1, LastDot(name) - 1)

\* Path::extension as an Option: <<>> is None, <<e>> is Some(e)
Extension(name) ==
    IF LastDot(name) <= 1 THEN <<>>
    ELSE << SubSeq(name, LastDot(name) + 1, Len(name)) >>

\* glob::Pattern::matches for patterns of literals and '*'
RECURSIVE Matches(_, _)
Matches(pat, s) ==
    IF pat = <<>> THEN s = <<>>
    ELSE IF Head(pat) = 42
         THEN \/ Matches(Tail(pat), s)
              \/ s # <<>> /\ Matches(pat, Tail(s))
         ELSE /\ s # <<>>
              /\ Head(pat) = Head(s)
              /\ Matches(Tail(pat), Tail(s))

\* the names of a set, in alphabetical order
SortNames(S) ==
    [i \in 1..Cardinality(S) |->
        CHOOSE x \in S : Cardinality({y \in S : LexLess(y, x)}) = i - 1]

Range(s) == {s[i] : i \in 1..Len(s)}

-----------------------------------------------------------------------------
(* File system *)

Exists(f, path) == path \in DOMAIN f

NamesIn(f, dir) == {p[2] : p \in {q \in DOMAIN f : q[1] = dir}}

\* a file is created or truncated and written
WriteFile(f, path, content) ==
    [p \in DOMAIN f \cup {path} |-> IF p = path THEN content ELSE f[p]]

\* fs::rename: the source disappears, the destination is replaced
Rename(f, src, dst) ==
    [p \in (DOMAIN f \ {src}) \cup {dst} |-> IF p = dst THEN f[src] ELSE f[p]]

\* fs::rename fails when the source is gone or the target directory is
RenameOk(f, d, src, dst) == Exists(f, src) /\ dst[1] \in d

\* fs::create_dir_all: the directory and its missing ancestors
CreateDirAll(d, dir) ==
    d \cup {dir} \cup (IF Len(dir) = 2 THEN {<<dir[1]>>} ELSE {})

\* File contents: lead/trail count the whitespace around the text
Content(kind, of, run, lead, trail) ==
    [kind |-> kind, of |-> of, run |-> run, lead |-> lead, trail |-> trail,
     lines |-> <<>>]

\* str::trim
Trim(c) == [c EXCEPT !.lead = 0, !.trail = 0]

-----------------------------------------------------------------------------
(* The run's configuration and the directory it starts in *)

Modes == {"auto", "gene"}
InputFmt == {"Fasta", "Nexus", "Phylip"}

\* alignments an input directory may hold, by format: two whose stems are
\* a and a.p, two with the one stem b, three with unrelated stems
AlnNames(fmt) ==
    CASE fmt = "Nexus" -> {Str_a \o Dot \o Str_nex, Str_a_p \o Dot \o Str_nex}
      [] fmt = "Fasta" -> {Str_b \o Dot \o Str_fa, Str_b \o Dot \o Str_fas}
      [] fmt = "Phylip" -> {Str_c \o Dot \o Str_phy, Str_d \o Dot \o Str_phy,
                            Str_e \o Dot \o Str_phy}

\* a file of another format that lies in the input directory as well
OtherName(fmt) ==
    CASE fmt = "Nexus" -> Str_c \o Dot \o Str_phy
      [] fmt = "Fasta" -> Str_a \o Dot \o Str_nex
      [] fmt = "Phylip" -> Str_b \o Dot \o Str_fa

\* alignments an earlier run in the same directory may have left results of
EarlierNames == {Str_a \o Dot \o Str_nex}

\* contents: an alignment, and the tree and the log iqtree2 writes for the
\* alignment named of
Aln(name) == Content("aln", name, "input", 0, 1)
Tree(of, run) == Content("tree", of, run, 0, 1)
Aux(of, run) == Content("log", of, run, 0, 0)
Collection(ls) == [Content("collection", <<>>, "new", 0, 0) EXCEPT !.lines = ls]

\* what a completed earlier run over the alignments S has left behind
LeftBy(S) ==
    LET tree(n) == Join(GENE_TREE_DIR, FileStem(n) \o Dot \o Str_treefile)
        log(n) == Join(ArchiveDir(FileStem(n)), FileStem(n) \o Dot \o Str_log)
        coll == IF S = {} THEN {} ELSE {Join(Cwd, GENE_TREE_NAME)}
        order == SortNames(S)
    IN [p \in {tree(n) : n \in S} \cup {log(n) : n \in S} \cup coll |->
          IF \E n \in S : p = tree(n)
          THEN Tree(CHOOSE n \in S : p = tree(n), "old")
          ELSE IF \E n \in S : p = log(n)
          THEN Aux(CHOOSE n \in S : p = log(n), "old")
          ELSE [Collection([i \in 1..Len(order) |-> Trim(Tree(order[i], "old"))])
                  EXCEPT !.run = "old"]]

DirsLeftBy(S) ==
    IF S = {} THEN {}
    ELSE {GENE_TREE_DIR, GENE_TREE_OUTPUT_DIR} \cup {ArchiveDir(FileStem(n)) : n \in S}

Merge(f, g) ==
    [p \in DOMAIN f \cup DOMAIN g |-> IF p \in DOMAIN g THEN g[p] ELSE f[p]]

NoOut == [exited |-> FALSE, ok |-> FALSE, seen |-> FALSE,
          stdout |-> <<>>, stderr |-> <<>>]

Init ==
    /\ cfg \in [mode : Modes, fmt : InputFmt, indir : {InDir, Cwd},
                pool : 1..MaxPool, earlier : SUBSET EarlierNames]
    /\ \E A \in SUBSET AlnNames(cfg.fmt) :
         /\ Cardinality(A) <= MaxFiles
         /\ fs = Merge(LeftBy(cfg.earlier),
                       [p \in {Join(cfg.indir, n) : n \in A \cup {OtherName(cfg.fmt)}}
                          |-> Aln(p[2])])
         /\ dirs = {Cwd, InDir} \cup DirsLeftBy(cfg.earlier)
    /\ main = "start"
    /\ paths = <<>>
    /\ jpc = <<>>
    /\ jout = <<>>
    /\ jfiles = <<>>
    /\ jnext = <<>>
    /\ sout = NoOut
    /\ sfiles = <<>>
    /\ snext = 1
    /\ logged = {}
    /\ started = {}
    /\ finished = {}
    /\ spawns = <<>>
    /\ collects = <<>>
    /\ params = <<>>
    /\ command = <<>>
    /\ opts = <<>>
    /\ duration = 0
    /\ time = <<>>

Jobs == 1..Len(paths)

-----------------------------------------------------------------------------
(* Commons *)

\* Commons::get_files: the paths of dir matching the pattern, as glob
\* yields them (alphabetically)
GetFiles(f, dir, pattern) ==
    SortNames({n \in NamesIn(f, dir) : Matches(pattern, n)})

\* a check that logs the path of a failure without the captured streams
CheckProcessSuccessPathOnly(out, path) ==
    IF ~out.ok THEN {[path |-> path, stdout |-> <<>>, stderr |-> <<>>]} ELSE {}

\* Commons::check_process_success: what gets logged for an Output
CheckProcessSuccess(out, path) ==
    IF ~out.ok
    THEN {[path |-> path, stdout |-> out.stdout, stderr |-> out.stderr]}
    ELSE {}

-----------------------------------------------------------------------------
(* Process: the argument lists of the subprocesses *)

Str_dash_s == <<45, 115>>
Str_dash_prefix == <<45, 45, 112, 114, 101, 102, 105, 120>>
Str_dash_T == <<45, 84>>
Str_1 == <<49>>
Str_dash_B == <<45, 66>>
Str_1000 == <<49, 48, 48, 48>>

\* a path as the string handed to the subprocess
DirStr(dir) ==
    CASE dir = Cwd -> <<46>>
      [] dir = InStarDir -> <<105, 110, 42>>
      [] OTHER -> <<105, 110>>

PathStr(path) ==
    IF path[2] = <<>> THEN DirStr(path[1]) ELSE DirStr(path[1]) \o <<47>> \o path[2]

\* char::is_whitespace on the characters of the model: space, tab, newline
IsWhitespace(c) == c \in {32, 9, 10}

\* str::split_whitespace: the maximal runs of non-whitespace characters
RECURSIVE SplitWhitespace(_)
SplitWhitespace(s) ==
    IF s = <<>> THEN <<>>
    ELSE IF IsWhitespace(Head(s)) THEN SplitWhitespace(Tail(s))
    ELSE LET ws == {i \in 1..Len(s) : IsWhitespace(s[i])}
             n == IF ws = {} THEN Len(s)
                  ELSE (CHOOSE i \in ws : \A k \in ws : i <= k) - 1
         IN <<SubSeq(s, 1, n)>> \o SplitWhitespace(SubSeq(s, n + 1, Len(s)))

\* a thread count that is added whether or not parameters were given
GetThreadNumAlways(args, ps) == args \o <<Str_dash_T, Str_1>>

\* Process::get_thread_num; ps is the Option: <<>> is None, <<s>> is Some(s)
GetThreadNum(args, ps) ==
    IF ps = <<>> THEN args \o <<Str_dash_T, Str_1>> ELSE args

\* Process::get_iqtree_params
GetIqtreeParams(args, ps) ==
    IF ps # <<>> THEN args \o SplitWhitespace(ps[1])
    ELSE args \o <<Str_dash_B, Str_1000>>

\* an argument list in which the thread count comes before --prefix
RunIqtreeArgsThreadsFirst(path, prefix, ps) ==
    GetIqtreeParams(GetThreadNum(<<Str_dash_s, PathStr(path)>>, ps)
                        \o <<Str_dash_prefix, prefix>>, ps)

\* Process::run_iqtree: the arguments of the Command
RunIqtreeArgs(path, prefix, ps) ==
    GetIqtreeParams(GetThreadNum(<<Str_dash_s, PathStr(path), Str_dash_prefix, prefix>>, ps), ps)

Str_dash_t == <<45, 116>>
Str_dash_gcf == <<45, 45, 103, 99, 102>>
Str_dash_p == <<45, 112>>
Str_dash_scf == <<45, 45, 115, 99, 102>>
Str_100 == <<49, 48, 48>>
Str_dash_i == <<45, 105>>
Str_dash_o == <<45, 111>>
Str_concat_treefile ==
    <<99, 111, 110, 99, 97, 116, 46, 116, 114, 101, 101, 102, 105, 108, 101>>

\* Process::run_iqtree_concord: the arguments of the Command; cores is
\* num_cpus::get_physical().to_string()
RunIqtreeConcordArgs(path, prefix, cores) ==
    <<Str_dash_t, Str_concat_treefile, Str_dash_gcf, GENE_TREE_NAME,
      Str_dash_p, PathStr(path), Str_dash_scf, Str_100, Str_dash_T, cores,
      Str_dash_prefix, prefix>>

\* Process::run_astral: the arguments of the Command
RunAstralArgs == <<Str_dash_i, GENE_TREE_NAME, Str_dash_o, ASTRAL_TREE_NAME>>

\* the argument that follows a flag
ArgAfter(args, flag) ==
    args[(CHOOSE i \in 1..(Len(args) - 1) : args[i] = flag) + 1]

\* the characters of the parameter strings: space, tab, '-', 'T', '1'
ParamChars == {32, 9, 45, 84, 49}

\* the Option<String> values handed to Process::new
ParamInputs ==
    {<<>>} \cup {<<s>> : s \in UNION {[1..n -> ParamChars] : n \in 0..MaxParamLen}}

-----------------------------------------------------------------------------
(* Gene-tree batch stage: build_gene_trees *)

\* GeneTrees::get_pattern
GetPattern(fmt) ==
    CASE fmt = "Fasta" -> Star \o Dot \o Str_fa \o Star
      [] fmt = "Nexus" -> Star \o Dot \o Str_nex \o Star
      [] fmt = "Phylip" -> Star \o Dot \o Str_phy \o Star

\* the directories a --dir argument may name
RootDirs == {Cwd, InDir, InStarDir}

\* the paths glob yields for the files of a sequence of directories
RECURSIVE GlobIn(_, _, _)
GlobIn(ds, f, pattern) ==
    IF ds = <<>> THEN <<>>
    ELSE LET d == CHOOSE r \in RootDirs : DirStr(r) = Head(ds)
             names == GetFiles(f, d, pattern)
         IN [i \in 1..Len(names) |-> Join(d, names[i])] \o GlobIn(Tail(ds), f, pattern)

\* glob("<root>/<pattern>"): the root is a component of the glob pattern as
\* well, so it is matched against the directory names
GlobRoot(f, root, pattern) ==
    GlobIn(SortNames({DirStr(d) : d \in {r \in RootDirs : Matches(DirStr(root), DirStr(r))}}),
           f, pattern)

\* GeneTrees::get_alignment_paths
GetAlignmentPaths(f) == GlobRoot(f, cfg.indir, GetPattern(cfg.fmt))

\* a prefix cut at the first dot of the file name
PrefixToFirstDot(path) ==
    LET ds == {i \in 1..Len(path[2]) : path[2][i] = 46}
    IN IF ds = {} THEN path[2]
       ELSE SubSeq(path[2], 1, (CHOOSE i \in ds : \A k \in ds : i <= k) - 1)

\* the prefix of a job: path.file_stem()
Prefix(path) == FileStem(path[2])

Discover ==
    /\ main = "gene.discover"
    /\ paths' = GetAlignmentPaths(fs)
    /\ jpc' = [j \in 1..Len(paths') |-> "idle"]
    /\ jout' = [j \in 1..Len(paths') |-> NoOut]
    /\ jfiles' = [j \in 1..Len(paths') |-> <<>>]
    /\ jnext' = [j \in 1..Len(paths') |-> 1]
    /\ spawns' = [j \in 1..Len(paths') |-> 0]
    /\ collects' = [j \in 1..Len(paths') |-> 0]
    /\ main' = "gene.assert"
    /\ UNCHANGED <<opts, duration, time, params, command, cfg, fs, dirs, sout, sfiles, snext, logged, started, finished>>

\* the assertion as its message words it ("Less than one alignment found")
AtLeastOneAlignment(ps) == Len(ps) > 0

\* assert!(paths.len() > 1, ...)
EnoughAlignments(ps) == Len(ps) > 1

AssertPaths ==
    /\ main = "gene.assert"
    /\ main' = IF EnoughAlignments(paths) THEN "gene.mkdir" ELSE "gene.aborted"
    /\ UNCHANGED <<opts, duration, time, params, command, cfg, fs, dirs, paths, jpc, jout, jfiles, jnext,
                   sout, sfiles, snext, logged, started, finished, spawns, collects>>

CreateTreeFilesDir ==
    /\ main = "gene.mkdir"
    /\ dirs' = CreateDirAll(dirs, GENE_TREE_DIR)
    /\ main' = "gene.dispatch"
    /\ UNCHANGED <<opts, duration, time, params, command, cfg, fs, paths, jpc, jout, jfiles, jnext,
                   sout, sfiles, snext, logged, started, finished, spawns, collects>>

\* the workers of the pool that are inside estimate_gene_tree
Active == {j \in Jobs : jpc[j] \in {"running", "glob", "move"}}

Ended == {j \in Jobs : jpc[j] \in {"done", "panicked", "skipped"}}

\* the Output of a terminated subprocess: its status and what it wrote on
\* its standard streams about its input
Captured(of, ok) ==
    [exited |-> TRUE, ok |-> ok, seen |-> TRUE,
     stdout |-> <<"stdout", of>>, stderr |-> <<"stderr", of>>]

\* the files iqtree2 --prefix p leaves in the working directory
IqtreeWrites(f, of, prefix, ok) ==
    LET withLog == WriteFile(f, Join(Cwd, prefix \o Dot \o Str_log), Aux(of, "new"))
    IN IF ok
       THEN WriteFile(withLog, Join(Cwd, prefix \o Dot \o Str_treefile), Tree(of, "new"))
       ELSE withLog

\* a dispatch that starts a subprocess for every path at once
MayTakeUnbounded(j) ==
    /\ main = "gene.dispatch"
    /\ jpc[j] = "idle"

\* a dispatch that hands a path out again while its Job is running
MayTakeAgain(j) ==
    /\ main = "gene.dispatch"
    /\ jpc[j] \in {"idle", "running"}
    /\ Cardinality(Active \ {j}) < cfg.pool

\* par_iter().for_each: a free worker of the pool takes a path that no
\* worker has taken
MayTake(j) ==
    /\ main = "gene.dispatch"
    /\ jpc[j] = "idle"
    /\ Cardinality(Active) < cfg.pool

\* Process::run_iqtree: the subprocess is spawned
RunIqtree(j) ==
    /\ MayTake(j)
    /\ jpc' = [jpc EXCEPT ![j] = "running"]
    /\ jout' = [jout EXCEPT ![j] = [NoOut EXCEPT !.seen = Exists(fs, paths[j])]]
    /\ spawns' = [spawns EXCEPT ![j] = @ + 1]
    /\ started' = started \cup {"gene"}
    /\ UNCHANGED <<opts, duration, time, params, command, cfg, fs, dirs, main, paths, jfiles, jnext,
                   sout, sfiles, snext, logged, finished, collects>>

\* Process::run_iqtree: .expect("Failed to run IQ-TREE") when the
\* executable cannot be spawned
RunIqtreeSpawnFails(j) ==
    /\ MayTake(j)
    /\ jpc' = [jpc EXCEPT ![j] = "panicked"]
    /\ UNCHANGED <<opts, duration, time, params, command, cfg, fs, dirs, main, paths, jout, jfiles, jnext,
                   sout, sfiles, snext, logged, started, finished, spawns, collects>>

\* estimate_gene_tree: the subprocess terminates, output() returns and
\* check_process_success logs a failure
IqtreeExits(j, ok) ==
    /\ jpc[j] = "running"
    /\ ok => jout[j].seen
    /\ fs' = IqtreeWrites(fs, paths[j][2], Prefix(paths[j]), ok)
    /\ jout' = [jout EXCEPT ![j] = Captured(paths[j][2], ok)]
    /\ logged' = logged \cup CheckProcessSuccess(jout'[j], paths[j])
    /\ jpc' = [jpc EXCEPT ![j] = "glob"]
    /\ UNCHANGED <<opts, duration, time, params, command, cfg, dirs, main, paths, jfiles, jnext,
                   sout, sfiles, snext, started, finished, spawns, collects>>

\* Process::get_iqtree_files: the files of the working directory that
\* match "<prefix>.*"
GetIqtreeFiles(f, prefix) == GetFiles(f, Cwd, prefix \o Dot \o Star)

\* a worker that returns early when its subprocess failed
CollectGeneOnSuccess(j) ==
    /\ jpc[j] = "glob"
    /\ IF jout[j].ok
       THEN /\ jfiles' = [jfiles EXCEPT ![j] = GetIqtreeFiles(fs, Prefix(paths[j]))]
            /\ jnext' = [jnext EXCEPT ![j] = 1]
            /\ collects' = [collects EXCEPT ![j] = @ + 1]
            /\ dirs' = CreateDirAll(dirs, ArchiveDir(Prefix(paths[j])))
            /\ jpc' = [jpc EXCEPT ![j] = IF jfiles'[j] = <<>> THEN "done" ELSE "move"]
       ELSE /\ jpc' = [jpc EXCEPT ![j] = "done"]
            /\ UNCHANGED <<jfiles, jnext, collects, dirs>>
    /\ UNCHANGED <<opts, duration, time, params, command, cfg, fs, main, paths, jout,
                   sout, sfiles, snext, logged, started, finished, spawns>>

\* estimate_gene_tree: get_iqtree_files, then organize_gene_files up to
\* fs::create_dir_all(parent_dir.join(prefix))
CollectGene(j) ==
    /\ jpc[j] = "glob"
    /\ jfiles' = [jfiles EXCEPT ![j] = GetIqtreeFiles(fs, Prefix(paths[j]))]
    /\ jnext' = [jnext EXCEPT ![j] = 1]
    /\ collects' = [collects EXCEPT ![j] = @ + 1]
    /\ dirs' = CreateDirAll(dirs, ArchiveDir(Prefix(paths[j])))
    /\ jpc' = [jpc EXCEPT ![j] = IF jfiles'[j] = <<>> THEN "done" ELSE "move"]
    /\ UNCHANGED <<opts, duration, time, params, command, cfg, fs, main, paths, jout,
                   sout, sfiles, snext, logged, started, finished, spawns>>

\* a collector that archives every file, the tree file included
GeneTargetArchiveAll(file, prefix) == Join(ArchiveDir(prefix), file)

\* organize_gene_files: where one collected file goes
GeneTarget(file, prefix) ==
    IF Extension(file) = <<Str_treefile>>
    THEN Join(GENE_TREE_DIR, file)
    ELSE Join(ArchiveDir(prefix), file)

\* a collector that passes over a file it cannot move
OrganizeMoveSkipsFailure(j) ==
    /\ jpc[j] = "move"
    /\ LET file == jfiles[j][jnext[j]]
           src == Join(Cwd, file)
           dst == GeneTarget(file, Prefix(paths[j]))
       IN fs' = IF Extension(file) # <<>> /\ RenameOk(fs, dirs, src, dst)
                THEN Rename(fs, src, dst) ELSE fs
    /\ jnext' = [jnext EXCEPT ![j] = @ + 1]
    /\ jpc' = [jpc EXCEPT ![j] = IF jnext[j] = Len(jfiles[j]) THEN "done" ELSE "move"]
    /\ UNCHANGED <<opts, duration, time, params, command, cfg, dirs, main, paths, jout, jfiles,
                   sout, sfiles, snext, logged, started, finished, spawns, collects>>

\* organize_gene_files: one iteration of files.iter().for_each
OrganizeMove(j) ==
    /\ jpc[j] = "move"
    /\ LET file == jfiles[j][jnext[j]]
           src == Join(Cwd, file)
           dst == GeneTarget(file, Prefix(paths[j]))
       IN IF Extension(file) # <<>> /\ RenameOk(fs, dirs, src, dst)
          THEN /\ fs' = Rename(fs, src, dst)
               /\ jnext' = [jnext EXCEPT ![j] = @ + 1]
               /\ jpc' = [jpc EXCEPT ![j] =
                            IF jnext[j] = Len(jfiles[j]) THEN "done" ELSE "move"]
          ELSE /\ jpc' = [jpc EXCEPT ![j] = "panicked"]
               /\ UNCHANGED <<fs, jnext>>
    /\ UNCHANGED <<opts, duration, time, params, command, cfg, dirs, main, paths, jout, jfiles,
                   sout, sfiles, snext, logged, started, finished, spawns, collects>>

\* a worker that unwinds from a panic drops the paths it had not reached
SkipJob(j) ==
    /\ main = "gene.dispatch"
    /\ jpc[j] = "idle"
    /\ \E k \in Jobs : jpc[k] = "panicked"
    /\ jpc' = [jpc EXCEPT ![j] = "skipped"]
    /\ UNCHANGED <<opts, duration, time, params, command, cfg, fs, dirs, main, paths, jout, jfiles, jnext,
                   sout, sfiles, snext, logged, started, finished, spawns, collects>>

\* a return as soon as one worker has returned
BarrierFirstReturn == Ended # {}

\* a return that does not wait for subprocesses that are still running
BarrierIgnoresRunning == \A j \in Jobs : jpc[j] \in {"done", "panicked", "skipped", "running"}

\* a return that waits until every subprocess has succeeded
BarrierAllSucceeded == Ended = Jobs /\ \A j \in Jobs : jout[j].ok

\* par_process_gene_trees returns: every worker has returned
Barrier == Ended = Jobs

ParReturn ==
    /\ main = "gene.dispatch"
    /\ Barrier
    /\ main' = IF \E j \in Jobs : jpc[j] = "panicked" THEN "panicked" ELSE "gene.combine"
    /\ UNCHANGED <<opts, duration, time, params, command, cfg, fs, dirs, paths, jpc, jout, jfiles, jnext,
                   sout, sfiles, snext, logged, started, finished, spawns, collects>>

\* an aggregation that stops one tree file short
CombinedLinesSkipLast(f) ==
    LET trees == GetFiles(f, GENE_TREE_DIR, Star \o Dot \o Str_treefile)
    IN [i \in 1..(Len(trees) - 1) |-> Trim(f[Join(GENE_TREE_DIR, trees[i])])]

\* combine_gene_trees with write_trees: one line per tree file of the tree
\* directory, trimmed, in the order glob yields them
CombinedLines(f) ==
    LET trees == GetFiles(f, GENE_TREE_DIR, Star \o Dot \o Str_treefile)
    IN [i \in 1..Len(trees) |-> Trim(f[Join(GENE_TREE_DIR, trees[i])])]

\* a pipeline that estimates the concordance factors before the gene trees
StageAfterCfFirst(stage) ==
    IF cfg.mode = "gene" THEN "complete"
    ELSE CASE stage = "species" -> "cf.spawn"
           [] stage = "cf" -> "gene.discover"
           [] stage = "gene" -> "msc.spawn"
           [] stage = "msc" -> "complete"

\* parse_auto_cli and parse_gene_cli: what follows a stage
StageAfter(stage) ==
    IF cfg.mode = "gene" THEN "complete"
    ELSE CASE stage = "species" -> "gene.discover"
           [] stage = "gene" -> "cf.spawn"
           [] stage = "cf" -> "msc.spawn"
           [] stage = "msc" -> "complete"

\* an aggregation that opens the TreeCollection for appending
CombineGeneTreesAppends ==
    /\ main = "gene.combine"
    /\ LET path == Join(Cwd, GENE_TREE_NAME)
           old == IF Exists(fs, path) THEN fs[path].lines ELSE <<>>
       IN fs' = WriteFile(fs, path, Collection(old \o CombinedLines(fs)))
    /\ finished' = finished \cup {"gene"}
    /\ main' = StageAfter("gene")
    /\ UNCHANGED <<opts, duration, time, params, command, cfg, dirs, paths, jpc, jout, jfiles, jnext,
                   sout, sfiles, snext, logged, started, spawns, collects>>

CombineGeneTrees ==
    /\ main = "gene.combine"
    /\ fs' = WriteFile(fs, Join(Cwd, GENE_TREE_NAME), Collection(CombinedLines(fs)))
    /\ finished' = finished \cup {"gene"}
    /\ main' = StageAfter("gene")
    /\ UNCHANGED <<opts, duration, time, params, command, cfg, dirs, paths, jpc, jout, jfiles, jnext,
                   sout, sfiles, snext, logged, started, spawns, collects>>

-----------------------------------------------------------------------------
(* Species-tree and concordance-factor stages: one job on the main thread *)

SingleStages == {"species", "cf"}

StagePrefix(st) ==
    IF st = "species" THEN SPECIES_TREE_PREFIX ELSE CONCORD_FACTOR_PREFIX

StageOutDir(st) ==
    IF st = "species" THEN SPECIES_TREE_OUTPUT_DIR ELSE CONCORD_FACTOR_OUTPUT_DIR

\* a collector that leaves the log file behind instead
StageKeepsLog(st) == Str_log

\* organize_species_files / organize_cf_files: the extension that is not moved
StageKeeps(st) == IF st = "species" THEN Str_treefile ELSE Str_tre

\* the directory given on the command line, as a path
InputPath == Join(cfg.indir, <<>>)

\* the files iqtree2 leaves for the species tree (run_iqtree) and for the
\* concordance factors (run_iqtree_concord)
StageWrites(f, st, ok) ==
    IF st = "species" THEN IqtreeWrites(f, SPECIES_TREE_PREFIX, SPECIES_TREE_PREFIX, ok)
    ELSE LET withLog == WriteFile(f, Join(Cwd, CONCORD_FACTOR_PREFIX \o Dot \o Str_log),
                                  Aux(CONCORD_FACTOR_PREFIX, "new"))
         IN IF ok
            THEN WriteFile(withLog,
                           Join(Cwd, CONCORD_FACTOR_PREFIX \o Dot \o Str_cf \o Dot \o Str_tree),
                           Tree(CONCORD_FACTOR_PREFIX, "new"))
            ELSE withLog

\* run_iqtree / run_iqtree_concord: the subprocess is spawned
SpawnStage(st) ==
    /\ main = st \o ".spawn"
    /\ main' = st \o ".wait"
    /\ started' = started \cup {st}
    /\ sout' = NoOut
    /\ UNCHANGED <<opts, duration, time, params, command, cfg, fs, dirs, paths, jpc, jout, jfiles, jnext,
                   sfiles, snext, logged, finished, spawns, collects>>

\* a spawn failure that is passed over: the stage goes on to its collection
SpawnStageFailsContinues(st) ==
    /\ main = st \o ".spawn"
    /\ main' = st \o ".glob"
    /\ UNCHANGED <<opts, duration, time, params, command, cfg, fs, dirs, paths, jpc, jout, jfiles, jnext,
                   sout, sfiles, snext, logged, started, finished, spawns, collects>>

\* .expect("Failed to run IQ-TREE ...")
SpawnStageFails(st) ==
    /\ main = st \o ".spawn"
    /\ main' = "panicked"
    /\ UNCHANGED <<opts, duration, time, params, command, cfg, fs, dirs, paths, jpc, jout, jfiles, jnext,
                   sout, sfiles, snext, logged, started, finished, spawns, collects>>

\* a stage that panics when its subprocess exits with a failure
StageExitsAbortsOnFailure(st, ok) ==
    /\ main = st \o ".wait"
    /\ fs' = StageWrites(fs, st, ok)
    /\ sout' = Captured(StagePrefix(st), ok)
    /\ logged' = logged \cup CheckProcessSuccess(sout', InputPath)
    /\ main' = IF ok THEN st \o ".glob" ELSE "panicked"
    /\ UNCHANGED <<opts, duration, time, params, command, cfg, dirs, paths, jpc, jout, jfiles, jnext,
                   sfiles, snext, started, finished, spawns, collects>>

\* estimate_species_tree / estimate_concordance: the subprocess terminates
\* and check_process_success logs a failure
StageExits(st, ok) ==
    /\ main = st \o ".wait"
    /\ fs' = StageWrites(fs, st, ok)
    /\ sout' = Captured(StagePrefix(st), ok)
    /\ logged' = logged \cup CheckProcessSuccess(sout', InputPath)
    /\ main' = st \o ".glob"
    /\ UNCHANGED <<opts, duration, time, params, command, cfg, dirs, paths, jpc, jout, jfiles, jnext,
                   sfiles, snext, started, finished, spawns, collects>>

\* get_iqtree_files, then organize_*_files up to
\* fs::create_dir_all(&self.outdir)
CollectStage(st) ==
    /\ main = st \o ".glob"
    /\ sfiles' = GetIqtreeFiles(fs, StagePrefix(st))
    /\ snext' = 1
    /\ dirs' = CreateDirAll(dirs, StageOutDir(st))
    /\ IF sfiles' = <<>>
       THEN /\ main' = StageAfter(st)
            /\ finished' = finished \cup {st}
       ELSE /\ main' = st \o ".move"
            /\ UNCHANGED finished
    /\ UNCHANGED <<opts, duration, time, params, command, cfg, fs, paths, jpc, jout, jfiles, jnext,
                   sout, logged, started, spawns, collects>>

\* a collector that moves every file, the primary result included
StageMovesAll(st, file) == TRUE

\* organize_*_files: whether one collected file is moved
StageMoves(st, file) == Extension(file) # <<StageKeeps(st)>>

\* organize_*_files: one iteration of files.iter().for_each
StageMove(st) ==
    /\ main = st \o ".move"
    /\ LET file == sfiles[snext]
           src == Join(Cwd, file)
           dst == Join(StageOutDir(st), file)
           ok == /\ Extension(file) # <<>>
                 /\ StageMoves(st, file) => RenameOk(fs, dirs, src, dst)
       IN /\ fs' = IF ok /\ StageMoves(st, file) THEN Rename(fs, src, dst) ELSE fs
          /\ snext' = IF ok THEN snext + 1 ELSE snext
          /\ main' = IF ~ok THEN "panicked"
                     ELSE IF snext = Len(sfiles) THEN StageAfter(st)
                     ELSE main
          /\ finished' = IF ok /\ snext = Len(sfiles)
                         THEN finished \cup {st} ELSE finished
    /\ UNCHANGED <<opts, duration, time, params, command, cfg, dirs, paths, jpc, jout, jfiles, jnext,
                   sout, sfiles, logged, started, spawns, collects>>

-----------------------------------------------------------------------------
(* MSC-tree stage *)

\* Process::run_astral: the subprocess is spawned
SpawnAstral ==
    /\ main = "msc.spawn"
    /\ main' = "msc.wait"
    /\ started' = started \cup {"msc"}
    /\ sout' = NoOut
    /\ UNCHANGED <<opts, duration, time, params, command, cfg, fs, dirs, paths, jpc, jout, jfiles, jnext,
                   sfiles, snext, logged, finished, spawns, collects>>

\* .expect("Failed to run Astral")
SpawnAstralFails ==
    /\ main = "msc.spawn"
    /\ main' = "panicked"
    /\ UNCHANGED <<opts, duration, time, params, command, cfg, fs, dirs, paths, jpc, jout, jfiles, jnext,
                   sout, sfiles, snext, logged, started, finished, spawns, collects>>

\* astral.sh -i genes.treefiles -o msc_astral.tree terminates
AstralExits(ok) ==
    /\ main = "msc.wait"
    /\ ok => Exists(fs, Join(Cwd, ArgAfter(RunAstralArgs, Str_dash_i)))
    /\ fs' = IF ok
             THEN WriteFile(fs, Join(Cwd, ArgAfter(RunAstralArgs, Str_dash_o)),
                            Tree(<<>>, "new"))
             ELSE fs
    /\ sout' = Captured(<<>>, ok)
    /\ main' = "msc.check"
    /\ UNCHANGED <<opts, duration, time, params, command, cfg, dirs, paths, jpc, jout, jfiles, jnext,
                   sfiles, snext, logged, started, finished, spawns, collects>>

\* MSCTree::write_astral_output: the captured stderr goes to the log file
WriteAstralOutput(f, out) ==
    WriteFile(f, Join(Cwd, ASTRAL_LOG_NAME), Content("stderr", out.stderr, "new", 0, 0))

\* MSCTree::estimate_msc_tree after run_astral
FinishMsc ==
    /\ main = "msc.check"
    /\ logged' = logged \cup CheckProcessSuccess(sout, InputPath)
    /\ fs' = IF sout.ok THEN WriteAstralOutput(fs, sout) ELSE fs
    /\ finished' = finished \cup {"msc"}
    /\ main' = StageAfter("msc")
    /\ UNCHANGED <<opts, duration, time, params, command, cfg, dirs, paths, jpc, jout, jfiles, jnext,
                   sout, sfiles, snext, started, spawns, collects>>

-----------------------------------------------------------------------------
(* The command line: parse_cli *)

Begin ==
    /\ main = "start"
    /\ main' = IF cfg.mode = "auto" THEN "species.spawn" ELSE "gene.discover"
    /\ UNCHANGED <<opts, duration, time, params, command, cfg, fs, dirs, paths, jpc, jout, jfiles, jnext,
                   sout, sfiles, snext, logged, started, finished, spawns, collects>>

Next ==
    \/ Begin
    \/ \E st \in SingleStages : SpawnStage(st)
    \/ \E st \in SingleStages : SpawnStageFails(st)
    \/ \E st \in SingleStages, ok \in BOOLEAN : StageExits(st, ok)
    \/ \E st \in SingleStages : CollectStage(st)
    \/ \E st \in SingleStages : StageMove(st)
    \/ Discover
    \/ AssertPaths
    \/ CreateTreeFilesDir
    \/ \E j \in Jobs : RunIqtree(j)
    \/ \E j \in Jobs : RunIqtreeSpawnFails(j)
    \/ \E j \in Jobs, ok \in BOOLEAN : IqtreeExits(j, ok)
    \/ \E j \in Jobs : CollectGene(j)
    \/ \E j \in Jobs : OrganizeMove(j)
    \/ \E j \in Jobs : SkipJob(j)
    \/ ParReturn
    \/ CombineGeneTrees
    \/ SpawnAstral
    \/ SpawnAstralFails
    \/ \E ok \in BOOLEAN : AstralExits(ok)
    \/ FinishMsc

Spec == Init /\ [][Next]_vars

-----------------------------------------------------------------------------
(* The gene-tree batch stage on its own (myte gene), with its scheduling *)

GeneInit == Init /\ cfg.mode = "gene"

\* the steps of the thread that runs build_gene_trees
MainStep ==
    \/ Begin
    \/ Discover
    \/ AssertPaths
    \/ CreateTreeFilesDir
    \/ ParReturn
    \/ CombineGeneTrees

\* the steps a worker of the pool takes for one path of par_iter
WorkerStep(j) ==
    \/ RunIqtree(j)
    \/ RunIqtreeSpawnFails(j)
    \/ CollectGene(j)
    \/ OrganizeMove(j)
    \/ SkipJob(j)

\* the subprocess of one Job terminates, with either status
SubprocessExits(j) == \E ok \in BOOLEAN : IqtreeExits(j, ok)

GeneNext ==
    \/ MainStep
    \/ \E j \in Jobs : WorkerStep(j)
    \/ \E j \in Jobs : SubprocessExits(j)

\* threads that can take a step take one eventually; nothing makes a
\* subprocess terminate: out.output() waits without a timeout
HungSpec ==
    /\ GeneInit
    /\ [][GeneNext]_vars
    /\ WF_vars(MainStep)
    /\ \A j \in 1..MaxFiles : WF_vars(j \in Jobs /\ WorkerStep(j))

\* the same, with every subprocess terminating
LiveSpec ==
    /\ GeneInit
    /\ [][GeneNext]_vars
    /\ WF_vars(MainStep)
    /\ \A j \in 1..MaxFiles : WF_vars(j \in Jobs /\ WorkerStep(j))
    /\ \A j \in 1..MaxFiles : WF_vars(j \in Jobs /\ SubprocessExits(j))

-----------------------------------------------------------------------------
(* Process::run_iqtree applied to every parameter override *)

ArgsInit ==
    /\ cfg = [mode |-> "auto", fmt |-> "Nexus", indir |-> InDir, pool |-> 1,
              earlier |-> {}]
    /\ fs = [p \in {Join(InDir, n) : n \in AlnNames("Nexus")} |-> Aln(p[2])]
    /\ dirs = {Cwd, InDir}
    /\ main = "start"
    /\ paths = GetAlignmentPaths(fs)
    /\ jpc = <<>>
    /\ jout = <<>>
    /\ jfiles = <<>>
    /\ jnext = <<>>
    /\ sout = NoOut
    /\ sfiles = <<>>
    /\ snext = 1
    /\ logged = {}
    /\ started = {}
    /\ finished = {}
    /\ spawns = <<>>
    /\ collects = <<>>
    /\ params \in ParamInputs
    /\ command = <<>>
    /\ opts = <<>>
    /\ duration = 0
    /\ time = <<>>

\* estimate_gene_tree: Process::new(path, self.params).run_iqtree(&prefix)
GeneCommand(j) ==
    /\ command' = RunIqtreeArgs(paths[j], Prefix(paths[j]), params)
    /\ UNCHANGED <<opts, duration, time, params, cfg, fs, dirs, main, paths, jpc, jout, jfiles, jnext,
                   sout, sfiles, snext, logged, started, finished, spawns, collects>>

\* estimate_species_tree: Process::new(self.path, self.params).run_iqtree(&self.prefix)
SpeciesCommand ==
    /\ command' = RunIqtreeArgs(InputPath, SPECIES_TREE_PREFIX, params)
    /\ UNCHANGED <<opts, duration, time, params, cfg, fs, dirs, main, paths, jpc, jout, jfiles, jnext,
                   sout, sfiles, snext, logged, started, finished, spawns, collects>>

ArgsNext ==
    \/ \E j \in Jobs : GeneCommand(j)
    \/ SpeciesCommand

ArgsSpec == ArgsInit /\ [][ArgsNext]_vars

-----------------------------------------------------------------------------
(* cli: from the --opts-g / --opts-s option to the argument list *)

\* default_value("-T 1") of opts-g
OptsGDefault == <<45, 84, 32, 49>>

\* str::trim on a string of characters
TrimStr(s) ==
    LET nw == {i \in 1..Len(s) : ~IsWhitespace(s[i])}
    IN IF nw = {} THEN <<>>
       ELSE SubSeq(s, CHOOSE i \in nw : \A k \in nw : i <= k,
                      CHOOSE i \in nw : \A k \in nw : k <= i)

\* cli::parse_params_gene; o is the option as typed: <<>> when it is absent
ParseParamsGene(o) == <<TrimStr(IF o = <<>> THEN OptsGDefault ELSE o[1])>>

\* cli::parse_params_species
ParseParamsSpecies(o) == IF o = <<>> THEN <<>> ELSE <<TrimStr(o[1])>>

CliInit ==
    /\ cfg = [mode |-> "auto", fmt |-> "Nexus", indir |-> InDir, pool |-> 1,
              earlier |-> {}]
    /\ fs = [p \in {Join(InDir, n) : n \in AlnNames("Nexus")} |-> Aln(p[2])]
    /\ dirs = {Cwd, InDir}
    /\ main = "start"
    /\ paths = GetAlignmentPaths(fs)
    /\ jpc = <<>>
    /\ jout = <<>>
    /\ jfiles = <<>>
    /\ jnext = <<>>
    /\ sout = NoOut
    /\ sfiles = <<>>
    /\ snext = 1
    /\ logged = {}
    /\ started = {}
    /\ finished = {}
    /\ spawns = <<>>
    /\ collects = <<>>
    /\ params = <<>>
    /\ command = <<>>
    /\ opts \in ParamInputs
    /\ duration = 0
    /\ time = <<>>

\* parse_gene_cli / parse_auto_cli: let params = parse_params_gene(matches)
GeneParams ==
    /\ main = "start"
    /\ params' = ParseParamsGene(opts)
    /\ main' = "gene.params"
    /\ UNCHANGED <<opts, duration, time, command, cfg, fs, dirs, paths, jpc, jout,
                   jfiles, jnext, sout, sfiles, snext, logged, started, finished,
                   spawns, collects>>

\* parse_auto_cli: let params_s = parse_params_species(matches)
SpeciesParams ==
    /\ main = "start"
    /\ params' = ParseParamsSpecies(opts)
    /\ main' = "species.params"
    /\ UNCHANGED <<opts, duration, time, command, cfg, fs, dirs, paths, jpc, jout,
                   jfiles, jnext, sout, sfiles, snext, logged, started, finished,
                   spawns, collects>>

\* build_gene_trees(path, &params, ..): the command of one gene Job
CliGeneCommand(j) == main = "gene.params" /\ command = <<>> /\ GeneCommand(j)

\* build_species_tree(path, &params_s): the command of the species Job
CliSpeciesCommand == main = "species.params" /\ command = <<>> /\ SpeciesCommand

CliNext ==
    \/ GeneParams
    \/ SpeciesParams
    \/ \E j \in Jobs : CliGeneCommand(j)
    \/ CliSpeciesCommand

CliSpec == CliInit /\ [][CliNext]_vars

-----------------------------------------------------------------------------
(* GeneTrees::get_alignment_paths applied to directories and formats *)

\* the files a directory may hold: alignments of the format and one other
LocatorNames(fmt) == AlnNames(fmt) \cup {OtherName(fmt)}

LocatorInit ==
    /\ cfg \in [mode : {"gene"}, fmt : InputFmt, indir : RootDirs, pool : {1},
                earlier : {{}}]
    /\ \E F \in [RootDirs -> SUBSET LocatorNames(cfg.fmt)] :
         /\ \A d \in RootDirs : Cardinality(F[d]) <= MaxFiles
         /\ fs = [p \in UNION {{Join(d, n) : n \in F[d]} : d \in RootDirs} |-> Aln(p[2])]
    /\ dirs = RootDirs
    /\ main = "start"
    /\ paths = <<>>
    /\ jpc = <<>>
    /\ jout = <<>>
    /\ jfiles = <<>>
    /\ jnext = <<>>
    /\ sout = NoOut
    /\ sfiles = <<>>
    /\ snext = 1
    /\ logged = {}
    /\ started = {}
    /\ finished = {}
    /\ spawns = <<>>
    /\ collects = <<>>
    /\ params = <<>>
    /\ command = <<>>
    /\ opts = <<>>
    /\ duration = 0
    /\ time = <<>>

\* build_gene_trees: let paths = genes.get_alignment_paths()
Locate ==
    /\ main = "start"
    /\ paths' = GetAlignmentPaths(fs)
    /\ main' = "located"
    /\ UNCHANGED <<opts, duration, time, params, command, cfg, fs, dirs, jpc, jout,
                   jfiles, jnext, sout, sfiles, snext, logged, started, finished,
                   spawns, collects>>

LocatorNext == Locate

LocatorSpec == LocatorInit /\ [][LocatorNext]_vars

-----------------------------------------------------------------------------
(* utils::parse_duration applied to durations in whole seconds *)

\* the largest duration drawn: the first one whose hour count is 24
MaxDuration == 86400

\* as u32: the value modulo 2^32, taken in two 16-bit halves
U32(n) == (n % 65536) + 65536 * ((n \div 65536) % 65536)

\* NaiveTime::from_hms: Some for a valid time of day, None (it panics) otherwise
FromHms(hours, min, sec) ==
    IF hours < 24 /\ min < 60 /\ sec < 60 THEN <<[hours |-> hours, min |-> min, sec |-> sec]>>
    ELSE <<>>

\* %H, %M, %S: two decimal digits, zero-padded
Pad2NoZero(n) == IF n < 10 THEN <<48 + n>> ELSE <<48 + (n \div 10), 48 + (n % 10)>>

Pad2(n) == <<48 + (n \div 10), 48 + (n % 10)>>

\* time.format("%H:%M:%S")
FormatHMS(t) == Pad2(t.hours) \o <<58>> \o Pad2(t.min) \o <<58>> \o Pad2(t.sec)

\* parse_duration up to the time of day it builds
ParseDurationTime(d) ==
    LET sec == U32(d % 60)
        min == U32((d \div 60) % 60)
        hours == U32((d \div 60) \div 60)
    IN FromHms(hours, min, sec)

DurationInit ==
    /\ cfg = [mode |-> "gene", fmt |-> "Nexus", indir |-> Cwd, pool |-> 1, earlier |-> {}]
    /\ fs = <<>>
    /\ dirs = {Cwd}
    /\ main = "start"
    /\ paths = <<>>
    /\ jpc = <<>>
    /\ jout = <<>>
    /\ jfiles = <<>>
    /\ jnext = <<>>
    /\ sout = NoOut
    /\ sfiles = <<>>
    /\ snext = 1
    /\ logged = {}
    /\ started = {}
    /\ finished = {}
    /\ spawns = <<>>
    /\ collects = <<>>
    /\ params = <<>>
    /\ command = <<>>
    /\ opts = <<>>
    /\ duration \in 0..MaxDuration
    /\ time = <<>>

\* parse_duration returns the formatted time
ParseDuration ==
    /\ main = "start"
    /\ ParseDurationTime(duration) # <<>>
    /\ time' = FormatHMS(ParseDurationTime(duration)[1])
    /\ main' = "timed"
    /\ UNCHANGED <<opts, duration, params, command, cfg, fs, dirs, paths, jpc, jout,
                   jfiles, jnext, sout, sfiles, snext, logged, started, finished,
                   spawns, collects>>

\* NaiveTime::from_hms panics on an hour count of 24 or more
ParseDurationPanics ==
    /\ main = "start"
    /\ ParseDurationTime(duration) = <<>>
    /\ main' = "panicked"
    /\ UNCHANGED <<opts, duration, time, params, command, cfg, fs, dirs, paths, jpc,
                   jout, jfiles, jnext, sout, sfiles, snext, logged, started,
                   finished, spawns, collects>>

DurationNext == ParseDuration \/ ParseDurationPanics

DurationSpec == DurationInit /\ [][DurationNext]_vars

-----------------------------------------------------------------------------
(* Properties *)

GeneDone == "gene" \in finished

TreeCollectionPath == Join(Cwd, GENE_TREE_NAME)

\* the lines of the TreeCollection file
TreeCollectionLines == fs[TreeCollectionPath].lines

\* the TreeCollection lines that hold the tree this run inferred for an alignment
LinesOf(name) ==
    {i \in 1..Len(TreeCollectionLines) :
        TreeCollectionLines[i].of = name /\ TreeCollectionLines[i].run = "new"}

DistinctStems ==
    \A j, k \in Jobs : j # k => Prefix(paths[j]) # Prefix(paths[k])

Failed == {j \in Jobs : jout[j].exited /\ ~jout[j].ok}

Succeeded == {j \in Jobs : jout[j].exited /\ jout[j].ok}

\* the output directories of the gene stage
IsGeneDir(d) == d = GENE_TREE_DIR \/ d[1] = "iqtree-genes"

\* C1: when discovery yields fewer than two alignments, build_gene_trees
\* aborts before anything is dispatched: no subprocess has run, no output
\* directory has been created and no TreeCollection has been written; and
\* the stage gets past the assertion only with two alignments or more.
C1_AbortBeforeDispatch ==
    /\ main = "gene.aborted" =>
         /\ Len(paths) < 2
         /\ "gene" \notin started
         /\ \A j \in Jobs : spawns[j] = 0 /\ jpc[j] = "idle"
         /\ {d \in dirs : IsGeneDir(d)} = DirsLeftBy(cfg.earlier)
         /\ Exists(fs, TreeCollectionPath) => fs[TreeCollectionPath].run = "old"
    /\ Len(paths) < 2 =>
         /\ main \notin {"gene.mkdir", "gene.dispatch", "gene.combine"}
         /\ "gene" \notin started \cup finished

C1_Witness == main = "gene.aborted" /\ Len(paths) = 1

\* C2 as stated: once the stage is Done, every discovered alignment had
\* exactly one Job and every Job whose subprocess succeeded has exactly one
\* line in the TreeCollection.
C2_Original ==
    GeneDone =>
        /\ \A j \in Jobs : spawns[j] = 1
        /\ \A j \in Succeeded : Cardinality(LinesOf(paths[j][2])) = 1

\* C2 amended: the same, for alignments with pairwise distinct file stems.
C2_OneLinePerSuccess ==
    GeneDone /\ DistinctStems =>
        /\ \A j \in Jobs : spawns[j] = 1
        /\ \A j \in Succeeded : Cardinality(LinesOf(paths[j][2])) = 1

C2_Witness ==
    /\ GeneDone
    /\ DistinctStems
    /\ Succeeded = Jobs
    /\ \E j, k \in Jobs : Prefix(paths[j]) = Str_a /\ Prefix(paths[k]) = Str_a_p

\* C3 as stated: a locus whose subprocess exited non-zero has no line in the
\* TreeCollection, and with exactly one faulted locus among N the
\* TreeCollection has N-1 lines.
C3_NoLineForFailed ==
    GeneDone =>
        /\ \A j \in Failed :
             \A i \in 1..Len(TreeCollectionLines) :
                 TreeCollectionLines[i].of # paths[j][2]
        /\ Cardinality(Failed) = 1 => Len(TreeCollectionLines) = Len(paths) - 1

\* C4: a non-zero exit of one gene-tree subprocess is logged with the
\* alignment path and the captured stdout and stderr, the worker goes on to
\* collection, the batch aborts only on a spawn or move failure, and a stage
\* that is Done has run and collected every Job.
C4_FailureIsolated ==
    /\ \A j \in Failed :
         /\ [path |-> paths[j], stdout |-> jout[j].stdout,
             stderr |-> jout[j].stderr] \in logged
         /\ jpc[j] \in {"glob", "move", "done", "panicked"}
         /\ jpc[j] = "panicked" => collects[j] = 1 /\ jnext[j] <= Len(jfiles[j])
    /\ (main = "panicked" /\ "gene" \in started /\ ~GeneDone) =>
         \E j \in Jobs :
            /\ jpc[j] = "panicked"
            /\ jout[j].exited => collects[j] = 1 /\ jnext[j] <= Len(jfiles[j])
    /\ GeneDone =>
         \A j \in Jobs : spawns[j] = 1 /\ collects[j] = 1 /\ jpc[j] = "done"

C4_Witness == GeneDone /\ Failed # {} /\ Succeeded # {}

\* C5: aggregation starts only after every dispatched Job has completed its
\* subprocess and its collection.
C5_BarrierBeforeAggregation ==
    (main = "gene.combine" \/ GeneDone) =>
        \A j \in Jobs : jpc[j] = "done" /\ jout[j].exited /\ jnext[j] = Len(jfiles[j]) + 1

C5_Witness == main = "gene.combine" /\ Len(paths) >= 2

\* position of an alignment in the discovery order
Pos(name) == CHOOSE j \in Jobs : paths[j][2] = name

Discovered(name) == \E j \in Jobs : paths[j][2] = name

\* C6 as stated: the lines of the TreeCollection that hold the trees of this
\* run's alignments are in the discovery order of those alignments.
C6_DiscoveryOrder ==
    GeneDone =>
        \A i, k \in 1..Len(TreeCollectionLines) :
            (/\ i < k
             /\ TreeCollectionLines[i].run = "new"
             /\ TreeCollectionLines[k].run = "new"
             /\ Discovered(TreeCollectionLines[i].of)
             /\ Discovered(TreeCollectionLines[k].of))
            => Pos(TreeCollectionLines[i].of) < Pos(TreeCollectionLines[k].of)

StageOrder == <<"species", "gene", "cf", "msc">>

\* C7: in the full pipeline a stage starts its subprocess only after every
\* earlier stage has completed, the gene stage's collection and aggregation
\* included; the gene command runs the gene stage alone.
C7_StagesSequential ==
    /\ cfg.mode = "gene" => started \subseteq {"gene"}
    /\ \A i \in 1..4 :
         (cfg.mode = "auto" /\ StageOrder[i] \in started) =>
             \A k \in 1..(i - 1) : StageOrder[k] \in finished
    /\ ("cf" \in started \/ "msc" \in started) =>
         /\ Active = {}
         /\ \A j \in Jobs : jpc[j] = "done"
         /\ Exists(fs, TreeCollectionPath) /\ fs[TreeCollectionPath].run = "new"
    /\ "gene" \in started /\ cfg.mode = "auto" =>
         main \notin {"species.spawn", "species.wait", "species.glob", "species.move"}

C7_Witness == cfg.mode = "auto" /\ "msc" \in started

C9_CollectOnceAfterExit ==
    \A j \in Jobs :
        /\ collects[j] <= 1
        /\ collects[j] = 1 => jout[j].exited
        /\ jout[j].exited => (collects[j] = 1 \/ jpc[j] = "glob")
        /\ jpc[j] \in {"move", "done"} => collects[j] = 1

C9_Witness ==
    \E j, k \in Jobs :
        /\ j \in Failed /\ jpc[j] = "done" /\ collects[j] = 1
        /\ k \in Succeeded /\ jpc[k] = "done" /\ collects[k] = 1

\* the files the Job of a prefix produces in the working directory
ProducedBy(prefix) == {prefix \o Dot \o Str_log, prefix \o Dot \o Str_treefile}

\* C10 as stated: for two alignments with distinct stems, the <prefix>.*
\* collection of one worker never matches a file produced by the other's Job.
C10_OwnPrefixOnly ==
    \A j, k \in Jobs :
        Prefix(paths[j]) # Prefix(paths[k]) =>
            Range(jfiles[j]) \cap ProducedBy(Prefix(paths[k])) = {}

\* the destinations of the moves a Job's collection has made
OutputPaths(j) ==
    {GeneTarget(jfiles[j][i], Prefix(paths[j])) : i \in 1..(jnext[j] - 1)}

\* C11: for two alignments with distinct stems, the paths under
\* gene-treefiles/ and iqtree-genes/<prefix>/ to which the two Jobs have moved
\* files are disjoint, each Job moves a file to a path at most once, and what
\* lies at such a path is a file of this run, never one a move has replaced.
C11_DisjointOutputs ==
    \A j, k \in Jobs :
        (j # k /\ FileStem(paths[j][2]) # FileStem(paths[k][2])) =>
            /\ OutputPaths(j) \cap OutputPaths(k) = {}
            /\ Cardinality(OutputPaths(j)) = jnext[j] - 1
            /\ \A p \in OutputPaths(j) :
                 /\ IsGeneDir(p[1])
                 /\ Exists(fs, p)
                 /\ fs[p].run # "old"

C11_Witness ==
    \E j, k \in Jobs :
        /\ FileStem(paths[j][2]) = Str_a /\ FileStem(paths[k][2]) = Str_a_p
        /\ jpc[j] = "done" /\ jpc[k] = "done"
        /\ Cardinality(OutputPaths(j)) >= 2
        /\ Cardinality(OutputPaths(k)) >= 2

\* the Jobs whose subprocess is running
Running == {j \in Jobs : jpc[j] = "running"}

\* C12: while the gene stage dispatches, the number of Jobs whose subprocess
\* is running, and the number of workers inside estimate_gene_tree, never
\* exceeds the pool size, however many alignments were discovered.
C12_PoolBound ==
    /\ Cardinality(Running) <= cfg.pool
    /\ Cardinality(Active) <= cfg.pool
    /\ Active # {} => main = "gene.dispatch"

C12_Witness ==
    /\ main = "gene.dispatch"
    /\ Cardinality(Running) = cfg.pool
    /\ \E j \in Jobs : jpc[j] = "idle"

\* C13: within one run of the gene stage every discovered alignment has
\* exactly one Job (no path is listed twice), a Job's subprocess is spawned at
\* most once, exactly once for a Job that ran, and two Jobs that are running
\* at the same time are Jobs of different alignment files.
C13_OneShotJobs ==
    /\ \A j, k \in Jobs : j # k => paths[j] # paths[k]
    /\ \A j \in Jobs :
         /\ spawns[j] <= 1
         /\ jpc[j] \in {"running", "glob", "move", "done"} => spawns[j] = 1
         /\ jpc[j] \in {"idle", "skipped"} => spawns[j] = 0
    /\ \A j, k \in Running : j # k => paths[j] # paths[k]
    /\ GeneDone => \A j \in Jobs : spawns[j] = 1

C13_Witness ==
    \E j, k \in Running : j # k /\ spawns[j] = 1 /\ spawns[k] = 1

\* a worker has panicked inside organize_gene_files
MoveFailed == \E j \in Jobs : jpc[j] = "panicked" /\ collects[j] = 1

\* whether the file a gene worker is about to move can be moved
CanMove(j) ==
    LET file == jfiles[j][jnext[j]]
    IN /\ Extension(file) # <<>>
       /\ RenameOk(fs, dirs, Join(Cwd, file), GeneTarget(file, Prefix(paths[j])))

\* C14: a move that fails during collection is fatal and never skipped: the
\* worker panics at the file it could not move and moves nothing after it;
\* once a worker has panicked in collection the run can only end panicked,
\* the gene stage never aggregates (the TreeCollection is neither created
\* nor rewritten) and no later stage starts; a failed move in the species or
\* concordance stage panics the main thread, which then does nothing more.
C14_MoveFailureFatal ==
    /\ [](MoveFailed =>
            /\ main \in {"gene.dispatch", "panicked"}
            /\ ~GeneDone
            /\ started \cap {"cf", "msc"} = {}
            /\ Exists(fs, TreeCollectionPath) => fs[TreeCollectionPath].run = "old")
    /\ [][/\ \A j \in Jobs :
               /\ (jpc[j] = "move" /\ ~CanMove(j)
                     /\ <<jpc[j], jnext[j]>> # <<jpc'[j], jnext'[j]>>) =>
                    jpc'[j] = "panicked" /\ jnext'[j] = jnext[j] /\ fs' = fs
               /\ jpc[j] = "panicked" => jpc'[j] = "panicked" /\ jnext'[j] = jnext[j]
          /\ \A st \in SingleStages :
               (/\ main = st \o ".move"
                /\ StageMoves(st, sfiles[snext])
                /\ ~RenameOk(fs, dirs, Join(Cwd, sfiles[snext]),
                             Join(StageOutDir(st), sfiles[snext]))) =>
                   main' = "panicked" /\ fs' = fs
          /\ main = "panicked" => vars' = vars
       ]_vars

C14_Witness ==
    /\ main = "panicked"
    /\ \E j \in Jobs :
         /\ jpc[j] = "panicked" /\ jout[j].exited /\ collects[j] = 1
         /\ ~Exists(fs, Join(Cwd, jfiles[j][jnext[j]]))
    /\ \E k \in Jobs : jpc[k] = "done"
    /\ ~Exists(fs, TreeCollectionPath)

\* a gene worker has panicked because iqtree2 could not be spawned
SpawnFailedGene == \E j \in Jobs : jpc[j] = "panicked" /\ spawns[j] = 0

\* C15: when an executable cannot be spawned the run is over: in the species,
\* concordance and MSC stages the main thread panics at once; a gene worker
\* panics without a second attempt, after which the stage can only end
\* panicked, never aggregates and no later stage starts; a panicked run does
\* nothing more.
C15_SpawnFailureFatal ==
    /\ [](SpawnFailedGene =>
            /\ main \in {"gene.dispatch", "panicked"}
            /\ ~GeneDone
            /\ started \cap {"cf", "msc"} = {})
    /\ [][/\ \A st \in {"species", "cf", "msc"} :
               (main = st \o ".spawn" /\ main' # main /\ st \notin started') =>
                   /\ main' = "panicked"
                   /\ <<fs, dirs, logged, started, finished>>' =
                        <<fs, dirs, logged, started, finished>>
          /\ \A j \in Jobs :
               /\ (jpc[j] = "idle" /\ jpc'[j] \notin {"idle", "skipped"}
                     /\ spawns'[j] = 0) => jpc'[j] = "panicked"
               /\ jpc[j] = "panicked" => jpc'[j] = "panicked" /\ spawns'[j] = spawns[j]
          /\ main = "panicked" => vars' = vars
       ]_vars

C15_Witness ==
    /\ cfg.mode = "auto"
    /\ main = "panicked"
    /\ "gene" \in finished
    /\ "cf" \notin started
    /\ ~SpawnFailedGene /\ ~MoveFailed

\* what check_process_success logs for a failed subprocess of a stage
FailureLog(of) ==
    [path |-> InputPath, stdout |-> <<"stdout", of>>, stderr |-> <<"stderr", of>>]

\* C16: a non-zero exit of the species-tree, concordance-factor or MSC-tree
\* subprocess is logged and the pipeline goes on: the stage collects its files
\* as after a success, and the step that ends it enters the next stage (gene
\* discovery after the species tree, the MSC spawn after the concordance
\* factors, completion after the MSC tree).
C16_FailureLoggedOnly ==
    [][/\ \A st \in SingleStages :
            /\ (main = st \o ".wait" /\ main' # main) =>
                 /\ main' = st \o ".glob"
                 /\ ~sout'.ok => FailureLog(StagePrefix(st)) \in logged'
            /\ (main \in {st \o ".glob", st \o ".move"} /\ ~sout.ok) =>
                 /\ main' \in {st \o ".glob", st \o ".move",
                               IF st = "species" THEN "gene.discover" ELSE "msc.spawn"}
                 /\ main' \notin {st \o ".glob", st \o ".move"} => st \in finished'
       /\ (main = "msc.wait" /\ main' # main) => main' = "msc.check"
       /\ (main = "msc.check" /\ ~sout.ok /\ main' # main) =>
            /\ main' = "complete"
            /\ "msc" \in finished'
            /\ FailureLog(<<>>) \in logged'
    ]_vars

C16_Witness ==
    /\ cfg.mode = "auto"
    /\ main = "complete"
    /\ finished = {"species", "gene", "cf", "msc"}
    /\ {FailureLog(SPECIES_TREE_PREFIX), FailureLog(CONCORD_FACTOR_PREFIX),
        FailureLog(<<>>)} \subseteq logged

\* the positions of an override string at which a token starts
TokenStarts(s) ==
    {i \in 1..Len(s) : ~IsWhitespace(s[i]) /\ (i = 1 \/ IsWhitespace(s[i - 1]))}

\* the token of an override string that starts at position i
TokenAt(s, i) ==
    SubSeq(s, i, CHOOSE k \in i..Len(s) :
                    /\ \A m \in i..k : ~IsWhitespace(s[m])
                    /\ k = Len(s) \/ IsWhitespace(s[k + 1]))

\* the arguments that follow -s <path> --prefix <prefix>
AfterFixed == SubSeq(command, 5, Len(command))

\* C17: the argument list of run_iqtree is -s <path> --prefix <prefix>,
\* followed, when an override is given, by exactly its whitespace-separated
\* tokens in their order (none empty, none holding whitespace, and neither
\* -T 1 nor -B 1000 added), and, when none is given, by -T 1 and -B 1000.
C17_Arguments ==
    command # <<>> =>
        /\ Len(command) >= 4
        /\ command[1] = Str_dash_s
        /\ command[3] = Str_dash_prefix
        /\ \/ command[2] = PathStr(InputPath) /\ command[4] = SPECIES_TREE_PREFIX
           \/ \E j \in Jobs : /\ command[2] = PathStr(paths[j])
                              /\ command[4] = FileStem(paths[j][2])
        /\ params = <<>> => AfterFixed = <<Str_dash_T, Str_1, Str_dash_B, Str_1000>>
        /\ params # <<>> =>
             /\ Len(AfterFixed) = Cardinality(TokenStarts(params[1]))
             /\ \A k \in 1..Len(AfterFixed) :
                  \E i \in TokenStarts(params[1]) :
                     /\ Cardinality({m \in TokenStarts(params[1]) : m <= i}) = k
                     /\ AfterFixed[k] = TokenAt(params[1], i)

C17_Witness ==
    /\ params = << <<45, 84, 32, 9, 49>> >> \/ params = << <<45, 84, 32, 49>> >>
    /\ command # <<>>
    /\ AfterFixed = <<Str_dash_T, Str_1>>

\* C18 as stated: the TreeCollection a run of the gene stage produces holds
\* only trees of Jobs executed in that run; a tree file an earlier run left
\* in gene-treefiles/ contributes no line.
C18_NoStaleLines ==
    GeneDone =>
        \A i \in 1..Len(TreeCollectionLines) : TreeCollectionLines[i].run = "new"

\* C19 as stated: once the MSC stage has run and its subprocess has
\* terminated, msc_astral.log holds the subprocess's standard error.
C19_StderrLogged ==
    "msc" \in finished =>
        /\ Exists(fs, Join(Cwd, ASTRAL_LOG_NAME))
        /\ fs[Join(Cwd, ASTRAL_LOG_NAME)] = Content("stderr", sout.stderr, "new", 0, 0)

\* the arguments of the concordance stage's subprocess
ConcordArgs == RunIqtreeConcordArgs(InputPath, CONCORD_FACTOR_PREFIX, Str_1)

Str_genes_treefiles ==
    <<103, 101, 110, 101, 115, 46, 116, 114, 101, 101, 102, 105, 108, 101, 115>>

Str_msc_astral_tree ==
    <<109, 115, 99, 95, 97, 115, 116, 114, 97, 108, 46, 116, 114, 101, 101>>

SpeciesSucceeded ==
    "species" \in finished /\ FailureLog(SPECIES_TREE_PREFIX) \notin logged

\* C20: the fixed names fit together: the TreeCollection the gene stage
\* writes in the working directory is named genes.treefiles, which is what
\* the concordance stage passes as --gcf and the MSC stage as -i, and it is
\* there, written by this run, when those stages start; the -t argument of
\* the concordance stage, concat.treefile, names the file the species stage
\* has left in the working directory when it succeeded; the MSC stage passes
\* msc_astral.tree as -o and its tree is written under that name.
C20_FixedNames ==
    /\ TreeCollectionPath = Join(Cwd, Str_genes_treefiles)
    /\ ArgAfter(ConcordArgs, Str_dash_gcf) = Str_genes_treefiles
    /\ ArgAfter(RunAstralArgs, Str_dash_i) = Str_genes_treefiles
    /\ ArgAfter(RunAstralArgs, Str_dash_o) = Str_msc_astral_tree
    /\ ArgAfter(ConcordArgs, Str_dash_t) = SPECIES_TREE_PREFIX \o Dot \o Str_treefile
    /\ GeneDone =>
         /\ Exists(fs, Join(Cwd, ArgAfter(ConcordArgs, Str_dash_gcf)))
         /\ fs[Join(Cwd, ArgAfter(ConcordArgs, Str_dash_gcf))].kind = "collection"
         /\ fs[Join(Cwd, ArgAfter(RunAstralArgs, Str_dash_i))].run = "new"
    /\ SpeciesSucceeded =>
         /\ Exists(fs, Join(Cwd, ArgAfter(ConcordArgs, Str_dash_t)))
         /\ fs[Join(Cwd, ArgAfter(ConcordArgs, Str_dash_t))] =
              Tree(SPECIES_TREE_PREFIX, "new")
    /\ ("msc" \in finished /\ sout.ok) =>
         /\ Exists(fs, Join(Cwd, Str_msc_astral_tree))
         /\ fs[Join(Cwd, Str_msc_astral_tree)].kind = "tree"

C20_Witness ==
    /\ cfg.mode = "auto"
    /\ main = "complete"
    /\ logged = {}
    /\ Exists(fs, Join(Cwd, Str_msc_astral_tree))
    /\ Exists(fs, Join(Cwd, Str_concat_treefile))

\* whether a name holds the characters sub somewhere
Contains(name, sub) ==
    \E i \in 1..(Len(name) - Len(sub) + 1) : SubSeq(name, i, i + Len(sub) - 1) = sub

\* the characters a name must hold to match the pattern of a format
FormatMark(fmt) ==
    CASE fmt = "Fasta" -> Dot \o Str_fa
      [] fmt = "Nexus" -> Dot \o Str_nex
      [] fmt = "Phylip" -> Dot \o Str_phy

\* C21 as stated: for a root directory and a format, the File Locator yields
\* exactly the files of that directory whose names match the format's
\* pattern, each once; nothing when none matches.
C21_Locator ==
    main = "located" =>
        /\ Range(paths) =
             {Join(cfg.indir, n) :
                 n \in {m \in NamesIn(fs, cfg.indir) : Contains(m, FormatMark(cfg.fmt))}}
        /\ Len(paths) = Cardinality(Range(paths))

\* the number two decimal digits at positions i and i + 1 of a string stand for
TwoDigits(str, i) == (str[i] - 48) * 10 + (str[i + 1] - 48)

\* C22: for every duration d with d div 3600 < 24, parse_duration returns the
\* eight characters HH:MM:SS with HH = d div 3600, MM = (d div 60) mod 60 and
\* SS = d mod 60, each as two decimal digits; 65 gives 00:01:05 and 3600
\* gives 01:00:00.
C22_ParseDuration ==
    /\ (main # "start" /\ duration \div 3600 < 24) => main = "timed"
    /\ main = "timed" =>
        /\ Len(time) = 8
        /\ time[3] = 58 /\ time[6] = 58
        /\ \A i \in {1, 2, 4, 5, 7, 8} : time[i] \in 48..57
        /\ TwoDigits(time, 1) = duration \div 3600
        /\ TwoDigits(time, 4) = (duration \div 60) % 60
        /\ TwoDigits(time, 7) = duration % 60
        /\ duration = 65 => time = <<48, 48, 58, 48, 49, 58, 48, 53>>
        /\ duration = 3600 => time = <<48, 49, 58, 48, 48, 58, 48, 48>>

C22_Witness ==
    /\ main = "timed"
    /\ duration = 65
    /\ time = <<48, 48, 58, 48, 49, 58, 48, 53>>

\* the files of the working directory that match <prefix>.* of a stage
StageLeftInCwd(st) ==
    {n \in NamesIn(fs, Cwd) : Matches(StagePrefix(st) \o Dot \o Star, n)}

\* C23 as stated: after a species-tree or concordance-factor stage, every
\* file matching <prefix>.*, the primary result included, has been moved out
\* of the working directory.
C23_Original ==
    \A st \in SingleStages \cap finished : StageLeftInCwd(st) = {}

\* C23, amended: after such a stage the only files matching <prefix>.* left
\* in the working directory are those with the extension the stage keeps
\* (treefile for the species tree, tre for the concordance factors); the log
\* of the run is in the stage's output directory, the concordance-factor tree
\* (concord.cf.tree) as well, and the species tree (concat.treefile) is in the
\* working directory and not in the output directory.
C23_Collected ==
    \A st \in SingleStages \cap finished :
        LET prefix == StagePrefix(st)
            ok == FailureLog(prefix) \notin logged
            log == Join(StageOutDir(st), prefix \o Dot \o Str_log)
            cftree == Join(StageOutDir(st), prefix \o Dot \o Str_cf \o Dot \o Str_tree)
            treefile == prefix \o Dot \o Str_treefile
        IN /\ \A n \in StageLeftInCwd(st) : Extension(n) = <<StageKeeps(st)>>
           /\ StageOutDir(st) \in dirs
           /\ Exists(fs, log) /\ fs[log].run = "new"
           /\ (st = "cf" /\ ok) =>
                /\ Exists(fs, cftree) /\ fs[cftree].run = "new"
                /\ StageLeftInCwd(st) = {}
           /\ (st = "species" /\ ok) =>
                /\ Exists(fs, Join(Cwd, treefile))
                /\ fs[Join(Cwd, treefile)].run = "new"
                /\ ~Exists(fs, Join(StageOutDir(st), treefile))

C23_Witness ==
    /\ {"species", "cf"} \subseteq finished
    /\ logged = {}
    /\ StageLeftInCwd("species") # {}
    /\ Exists(fs, Join(CONCORD_FACTOR_OUTPUT_DIR,
                       CONCORD_FACTOR_PREFIX \o Dot \o Str_cf \o Dot \o Str_tree))

\* C24 as stated: the argument list is -s <alignment>, then the optional
\* -T <threads>, then --prefix <prefix>, then either the override arguments
\* or -B 1000.
C24_Original ==
    command # <<>> =>
        /\ command[1] = Str_dash_s
        /\ \E p \in {3, 5} :
             /\ Len(command) > p
             /\ command[p] = Str_dash_prefix
             /\ p = 5 => command[3] = Str_dash_T
             /\ params = <<>> =>
                  SubSeq(command, p + 2, Len(command)) = <<Str_dash_B, Str_1000>>

\* C24, amended: the argument list is -s <alignment> --prefix <prefix> first;
\* without an override it continues with -T 1 and then -B 1000, so the thread
\* count comes after --prefix; with an override nothing but the arguments of
\* the override follows, as many as it has tokens.
C24_ArgumentOrder ==
    command # <<>> =>
        /\ Len(command) >= 4
        /\ command[1] = Str_dash_s
        /\ command[3] = Str_dash_prefix
        /\ params = <<>> =>
             /\ Len(command) = 8
             /\ command[5] = Str_dash_T /\ command[6] = Str_1
             /\ command[7] = Str_dash_B /\ command[8] = Str_1000
        /\ params # <<>> =>
             /\ Len(command) = 4 + Cardinality(TokenStarts(params[1]))
             /\ \A k \in 5..Len(command) :
                  /\ command[k] # <<>>
                  /\ \A i \in 1..Len(command[k]) : ~IsWhitespace(command[k][i])

C24_Witness ==
    /\ params = <<>>
    /\ Len(command) = 8
    /\ command[3] = Str_dash_prefix
    /\ command[5] = Str_dash_T
    /\ \E j \in Jobs : command[2] = PathStr(paths[j])

\* whether an argument list holds flag followed by value
HasPair(args, flag, value) ==
    \E i \in 1..(Len(args) - 1) : args[i] = flag /\ args[i + 1] = value

\* C25 as stated: when no gene-tree override is given on the command line,
\* the command of every gene-tree Job holds both -T 1 and -B 1000.
C25_GeneDefaults ==
    (opts = <<>> /\ main = "gene.params" /\ command # <<>>) =>
        /\ HasPair(command, Str_dash_T, Str_1)
        /\ HasPair(command, Str_dash_B, Str_1000)

\* C26 as stated: gene-treefiles and iqtree-genes both exist whenever the
\* stage is dispatching; no step taken during dispatching creates a
\* directory; and a file that lies in one of them during the batch is
\* neither removed nor replaced.
C26_DirsBeforeDispatch ==
    /\ [](main = "gene.dispatch" => {GENE_TREE_DIR, GENE_TREE_OUTPUT_DIR} \subseteq dirs)
    /\ [][main = "gene.dispatch" =>
            /\ dirs' = dirs
            /\ \A p \in DOMAIN fs :
                 IsGeneDir(p[1]) => (p \in DOMAIN fs' /\ fs'[p] = fs[p])]_vars

\* C27: there is no cancellation and no timeout. While the subprocess of a
\* Job has not exited its worker stays where it is: the stage is still
\* dispatching and has neither aggregated nor finished, and the only step
\* that takes the worker on is the exit of the subprocess. Every Job whose
\* subprocess has terminated gets to the end of its collection (all its files
\* moved, or the panic of a move that failed), whatever other subprocesses do.
C27_NoTimeout ==
    /\ [](\A j \in Jobs : jpc[j] = "running" =>
            /\ main = "gene.dispatch"
            /\ ~GeneDone
            /\ ~jout[j].exited)
    /\ [][\A j \in Jobs : (jpc[j] = "running" /\ jpc'[j] # "running") =>
            (jout'[j].exited /\ jpc'[j] = "glob")]_vars
    /\ \A j \in 1..MaxFiles :
         (j \in Jobs /\ jpc[j] = "glob") ~>
             (/\ j \in Jobs
              /\ jpc[j] \in {"done", "panicked"}
              /\ jpc[j] = "done" => jnext[j] = Len(jfiles[j]) + 1)

C27_Witness ==
    /\ main = "gene.dispatch"
    /\ \E j, k \in Jobs :
         /\ jpc[j] = "running"
         /\ jpc[k] = "done"
         /\ jout[k].exited
         /\ jfiles[k] # <<>>

\* C28 as stated: after the gene-tree stage every discovered alignment is
\* still at the path where it was discovered, with the content it had, also
\* when the input directory is the working directory.
C28_InputsStay ==
    GeneDone =>
        \A j \in Jobs :
            /\ Exists(fs, paths[j])
            /\ fs[paths[j]] = Aln(paths[j][2])

\* the primary files that lie in the tree-output directory
TreeFilesPresent ==
    {n \in NamesIn(fs, GENE_TREE_DIR) : Extension(n) = <<Str_treefile>>}

\* C29: aggregation writes the TreeCollection anew: once the stage is Done
\* the file has as many lines as there are *.treefile files in
\* gene-treefiles/, every line is trimmed, every such file has its trimmed
\* content on a line, and nothing of a TreeCollection an earlier run left is
\* kept beyond that.
C29_Aggregation ==
    GeneDone =>
        /\ Exists(fs, TreeCollectionPath)
        /\ fs[TreeCollectionPath].kind = "collection"
        /\ fs[TreeCollectionPath].run = "new"
        /\ Len(TreeCollectionLines) = Cardinality(TreeFilesPresent)
        /\ \A i \in 1..Len(TreeCollectionLines) :
             /\ TreeCollectionLines[i].lead = 0
             /\ TreeCollectionLines[i].trail = 0
        /\ \A n \in TreeFilesPresent :
             \E i \in 1..Len(TreeCollectionLines) :
                 /\ TreeCollectionLines[i].kind = fs[Join(GENE_TREE_DIR, n)].kind
                 /\ TreeCollectionLines[i].of = fs[Join(GENE_TREE_DIR, n)].of
                 /\ TreeCollectionLines[i].run = fs[Join(GENE_TREE_DIR, n)].run

C29_Witness ==
    /\ GeneDone
    /\ cfg.earlier # {}
    /\ Cardinality(TreeFilesPresent) >= 2
    /\ Len(TreeCollectionLines) = Cardinality(TreeFilesPresent)
    /\ \E n \in TreeFilesPresent : fs[Join(GENE_TREE_DIR, n)].trail > 0

\* every Job has been run and collected, and the TreeCollection is written
AllCollected ==
    /\ GeneDone
    /\ \A j \in Jobs : jpc[j] = "done" /\ jout[j].exited /\ collects[j] = 1
    /\ Exists(fs, TreeCollectionPath)
    /\ fs[TreeCollectionPath].run = "new"

\* C30: when two or more alignments are discovered and every subprocess
\* terminates, then, with the main thread and the workers scheduled fairly,
\* the gene-tree batch stage eventually is Done with every Job collected and
\* the TreeCollection written, unless a spawn or a move fails (a worker
\* panics).
C30_StageCompletes ==
    (main = "gene.assert" /\ Len(paths) >= 2) ~>
        (AllCollected \/ \E j \in Jobs : jpc[j] = "panicked")

C30_Witness ==
    /\ AllCollected
    /\ Len(paths) >= 2
    /\ \E j \in Jobs : ~jout[j].ok
    /\ \E j \in Jobs : jout[j].ok

====
